---- MODULE Spec2Model ----
(***************************************************************************)
(* AsyncTTLCache of backend/main.py: an async TTL cache that coalesces     *)
(* concurrent computations of one key with a per-key asyncio.Lock.         *)
(*                                                                         *)
(* Every task (Procs) runs one call at a time: get, get_or_compute or      *)
(* invalidate.  A call is cut at its awaits: `async with` of a lock, the   *)
(* nested `await self.get(key)` and `await coro_func()`.  pc labels carry  *)
(* the source line the task stands at.                                     *)
(***************************************************************************)
EXTENDS Integers, FiniteSets, Sequences, TLC

\* ------------------------------------------------------------------ bounds
NProcs == 2
MaxTime == 2
MaxTTL == 1

Procs == 1..NProcs
Keys == {"a", "b"}
TTLs == 1..MaxTTL

\* Python's None, and the marker of a raised exception.
None == "None"
Raised == "Raised"
\* What a coro_func can return: None or a payload.
Values == {None, "v1"}

NoKey == "-"
NoCaller == "-"
\* self._data.get(key) of a key that is not in the dict.
NoRec == [present |-> FALSE, expiry |-> 0, value |-> None]

VARIABLES
    data,          \* self._data: key -> (expiry, value)
    locks,         \* keys of self._locks
    holder,        \* owner of each per-key asyncio.Lock (0 = unlocked)
    global_lock,   \* owner of self._global_lock (0 = unlocked)
    now,           \* time.time()
    pc,            \* where each task stands
    key,           \* argument key of the running call
    ttl,           \* argument ttl of the running get_or_compute
    caller,        \* who awaits the running get: "get", "fast", "recheck"
    result,        \* local `result` of get_or_compute (line 96)
    ret,           \* what the task's last call returned (or Raised)
    sawFail,       \* history: the task was queued on the lock when a compute failed
    stale          \* history: tasks whose running coro_func was overtaken by an invalidate of their key

vars == <<data, locks, holder, global_lock, now, pc, key, ttl, caller, result, ret, sawFail, stale>>
shared == <<data, locks, holder, global_lock, now>>

\* One query on its way through backend/Rag_System/rag3.py.
VARIABLES
    query,         \* user_query
    rpc,           \* how far the query has come
    expansions,    \* expand_query(user_query)
    collections,   \* target_collections = detect_collections(user_query)
    target_unit,   \* target_unit of retrieve_chunks (None when no unit id is named)
    assigned,      \* assigned_units returned by retrieve_chunks
    jobs,          \* build_api_jobs(...)
    dedup_jobs,    \* dedup_jobs of fetch_realtime_context
    jobs_to_run,   \* dedup_jobs[:max_items]
    jstate,        \* per job of jobs_to_run: "queued", "get", "sleep", "done"
    tries,         \* per job: session.get calls made so far
    delays,        \* per job: the time.sleep durations so far, in order
    results,       \* results of fetch_realtime_context, in append order
    context        \* ctx_parts, the sections of the returned context string

\* The similarity side of the query and the answer built from both sides.
VARIABLES
    embedded,      \* how many texts of expanded_queries line 133 has embedded
    qstate,        \* per collection of target_collections: "pending", "ok", "failed"
    results_list,  \* results_list of the running retrieve_chunks
    chroma_results, \* results of generate_answer: the results_list handed to it
    chunks,        \* the documents that make up chroma_context
    context_str,   \* context_str of generate_answer, as its list of parts
    answer         \* what hybrid_generate_answer returns

answerVars == <<embedded, qstate, results_list, chroma_results, chunks, context_str, answer>>

ragVars == <<query, rpc, expansions, collections, target_unit, assigned, jobs, dedup_jobs,
             jobs_to_run, jstate, tries, delays, results, context, answerVars>>
allVars == <<vars, ragVars>>

\* Nothing retrieved, nothing answered.
AnswerOff ==
    /\ embedded = 0
    /\ qstate = <<>>
    /\ results_list = <<>>
    /\ chroma_results = <<>>
    /\ chunks = <<>>
    /\ context_str = <<>>
    /\ answer = "None"

\* No query is being answered.
RagOff ==
    /\ query = ""
    /\ rpc = "off"
    /\ expansions = <<>>
    /\ collections = <<>>
    /\ target_unit = "None"
    /\ assigned = <<>>
    /\ jobs = <<>>
    /\ dedup_jobs = <<>>
    /\ jobs_to_run = <<>>
    /\ jstate = <<>>
    /\ tries = <<>>
    /\ delays = <<>>
    /\ results = <<>>
    /\ context = <<>>
    /\ AnswerOff

\* ------------------------------------------------------------------ helpers
Rec(e, v) == [present |-> TRUE, expiry |-> e, value |-> v]

\* time.time() > expiry (line 65, line 70)
Expired(rec, t) == rec.present /\ t > rec.expiry

\* What lines 61-73 return for a record read at time t.
Lookup(rec, t) == IF rec.present /\ ~(t > rec.expiry) THEN rec.value ELSE None

\* self._data.pop(key, None)
Pop(d, k) == [d EXCEPT ![k] = NoRec]

\* The cache as constructed, no call in progress.
CacheIdle ==
    /\ data = [k \in Keys |-> NoRec]
    /\ locks = {}
    /\ holder = [k \in Keys |-> 0]
    /\ global_lock = 0
    /\ now = 0
    /\ pc = [p \in Procs |-> "idle"]
    /\ key = [p \in Procs |-> NoKey]
    /\ ttl = [p \in Procs |-> 0]
    /\ caller = [p \in Procs |-> NoCaller]
    /\ result = [p \in Procs |-> None]
    /\ ret = [p \in Procs |-> None]
    /\ sawFail = [p \in Procs |-> FALSE]
    /\ stale = {}

Init ==
    /\ CacheIdle
    /\ RagOff

\* The call of task p ends with val (a value, None, or Raised).
Return(p, val) ==
    /\ pc' = [pc EXCEPT ![p] = "idle"]
    /\ ret' = [ret EXCEPT ![p] = val]
    /\ key' = [key EXCEPT ![p] = NoKey]
    /\ ttl' = [ttl EXCEPT ![p] = 0]
    /\ caller' = [caller EXCEPT ![p] = NoCaller]
    /\ result' = [result EXCEPT ![p] = None]

Goto(p, label) ==
    /\ pc' = [pc EXCEPT ![p] = label]
    /\ UNCHANGED <<key, ttl, caller, result, ret>>

\* ------------------------------------------------------------------ calls
CallGet(p, k) ==
    /\ pc[p] = "idle"
    /\ pc' = [pc EXCEPT ![p] = "get_61"]
    /\ key' = [key EXCEPT ![p] = k]
    /\ caller' = [caller EXCEPT ![p] = "get"]
    /\ UNCHANGED <<shared, ttl, result, ret, sawFail>>
    /\ UNCHANGED stale
    /\ UNCHANGED ragVars

CallGetOrCompute(p, k, t) ==
    /\ pc[p] = "idle"
    /\ pc' = [pc EXCEPT ![p] = "get_61"]
    /\ key' = [key EXCEPT ![p] = k]
    /\ ttl' = [ttl EXCEPT ![p] = t]
    /\ caller' = [caller EXCEPT ![p] = "fast"]
    /\ UNCHANGED <<shared, result, ret, sawFail>>
    /\ UNCHANGED stale
    /\ UNCHANGED ragVars

CallInvalidate(p, k) ==
    /\ pc[p] = "idle"
    /\ pc' = [pc EXCEPT ![p] = "inv_107"]
    /\ key' = [key EXCEPT ![p] = k]
    /\ UNCHANGED <<shared, ttl, caller, result, ret, sawFail>>
    /\ UNCHANGED stale
    /\ UNCHANGED ragVars

\* ------------------------------------------------------------------ get
\* get hands val to whoever awaited it: the task itself (a plain get), line 77
\* (fast check) or line 90 (re-check inside the per-key lock).
GetReturn(p, val) ==
    IF caller[p] = "get"
    THEN Return(p, val) /\ UNCHANGED <<holder, sawFail>>
    ELSE IF caller[p] = "fast"
    THEN IF val # None
         THEN Return(p, val) /\ UNCHANGED <<holder, sawFail>>
         ELSE /\ pc' = [pc EXCEPT ![p] = "goc_82"]
              /\ caller' = [caller EXCEPT ![p] = NoCaller]
              /\ UNCHANGED <<key, ttl, result, ret, holder, sawFail>>
    ELSE IF val # None
         THEN /\ Return(p, val)
              /\ holder' = [holder EXCEPT ![key[p]] = 0]
              /\ sawFail' = [sawFail EXCEPT ![p] = FALSE]
         ELSE /\ pc' = [pc EXCEPT ![p] = "goc_96"]
              /\ caller' = [caller EXCEPT ![p] = NoCaller]
              /\ UNCHANGED <<key, ttl, result, ret, holder, sawFail>>

\* lines 61-66 and 73
GetCheck(p) ==
    /\ pc[p] = "get_61"
    /\ LET rec == data[key[p]] IN
        IF Expired(rec, now)
        THEN Goto(p, "get_67") /\ UNCHANGED <<holder, sawFail>>
        ELSE GetReturn(p, Lookup(rec, now))
    /\ UNCHANGED <<data, locks, global_lock, now>>
    /\ UNCHANGED stale
    /\ UNCHANGED ragVars

\* line 67: async with self._global_lock
GetLock(p) ==
    /\ pc[p] = "get_67"
    /\ global_lock = 0
    /\ global_lock' = p
    /\ Goto(p, "get_69")
    /\ UNCHANGED <<data, locks, holder, now, sawFail>>
    /\ UNCHANGED stale
    /\ UNCHANGED ragVars

\* An eviction that does not look at the entry again inside the lock.
GetEvict_NoDoubleCheck(p) ==
    /\ pc[p] = "get_69"
    /\ data' = Pop(data, key[p])
    /\ global_lock' = 0
    /\ GetReturn(p, None)
    /\ UNCHANGED <<locks, now>>
    /\ UNCHANGED stale
    /\ UNCHANGED ragVars

\* lines 69-72
GetEvict(p) ==
    /\ pc[p] = "get_69"
    /\ data' = IF Expired(data[key[p]], now) THEN Pop(data, key[p]) ELSE data
    /\ global_lock' = 0
    /\ GetReturn(p, None)
    /\ UNCHANGED <<locks, now>>
    /\ UNCHANGED stale
    /\ UNCHANGED ragVars

\* ------------------------------------------------------------------ get_or_compute
\* line 82: async with self._global_lock
RegLock(p) ==
    /\ pc[p] = "goc_82"
    /\ global_lock = 0
    /\ global_lock' = p
    /\ Goto(p, "goc_83")
    /\ UNCHANGED <<data, locks, holder, now, sawFail>>
    /\ UNCHANGED stale
    /\ UNCHANGED ragVars

\* A registration that goes on to wait for the key's lock without leaving
\* the global lock.
RegBody_KeepGlobal(p) ==
    /\ pc[p] = "goc_83"
    /\ locks' = locks \cup {key[p]}
    /\ Goto(p, "goc_88")
    /\ UNCHANGED <<data, holder, global_lock, now, sawFail>>
    /\ UNCHANGED stale
    /\ UNCHANGED ragVars

\* lines 83-85
RegBody(p) ==
    /\ pc[p] = "goc_83"
    /\ locks' = locks \cup {key[p]}
    /\ global_lock' = 0
    /\ Goto(p, "goc_88")
    /\ UNCHANGED <<data, holder, now, sawFail>>
    /\ UNCHANGED stale
    /\ UNCHANGED ragVars

\* A caller that waits until no key's lock is held: one lock for all keys.
Acquire_AnyKey(p) ==
    /\ pc[p] = "goc_88"
    /\ \A k \in Keys : holder[k] = 0
    /\ holder' = [holder EXCEPT ![key[p]] = p]
    /\ pc' = [pc EXCEPT ![p] = "get_61"]
    /\ caller' = [caller EXCEPT ![p] = "recheck"]
    /\ UNCHANGED <<data, locks, global_lock, now, key, ttl, result, ret, sawFail>>
    /\ UNCHANGED stale
    /\ UNCHANGED ragVars

\* A caller that does not wait for the per-key lock.
Acquire_NoWait(p) ==
    /\ pc[p] = "goc_88"
    /\ holder' = [holder EXCEPT ![key[p]] = p]
    /\ pc' = [pc EXCEPT ![p] = "get_61"]
    /\ caller' = [caller EXCEPT ![p] = "recheck"]
    /\ UNCHANGED <<data, locks, global_lock, now, key, ttl, result, ret, sawFail>>
    /\ UNCHANGED stale
    /\ UNCHANGED ragVars

\* line 88: async with lock, then line 90 awaits get
Acquire(p) ==
    /\ pc[p] = "goc_88"
    /\ holder[key[p]] = 0
    /\ holder' = [holder EXCEPT ![key[p]] = p]
    /\ pc' = [pc EXCEPT ![p] = "get_61"]
    /\ caller' = [caller EXCEPT ![p] = "recheck"]
    /\ UNCHANGED <<data, locks, global_lock, now, key, ttl, result, ret, sawFail>>
    /\ UNCHANGED stale
    /\ UNCHANGED ragVars

\* line 96: coro_func() returns val
ComputeReturn(p, val) ==
    /\ pc[p] = "goc_96"
    /\ pc' = [pc EXCEPT ![p] = "goc_102"]
    /\ result' = [result EXCEPT ![p] = val]
    /\ UNCHANGED <<shared, key, ttl, caller, ret, sawFail>>
    /\ UNCHANGED stale
    /\ UNCHANGED ragVars

\* line 96: coro_func() raises
ComputeRaise(p) ==
    /\ pc[p] = "goc_96"
    /\ pc' = [pc EXCEPT ![p] = "goc_99"]
    /\ UNCHANGED <<shared, key, ttl, caller, result, ret, sawFail>>
    /\ UNCHANGED stale
    /\ UNCHANGED ragVars

\* A failure handed to every task queued on the key's lock.
Reraise_Propagate(p) ==
    LET queued == {q \in Procs : q # p /\ pc[q] = "goc_88" /\ key[q] = key[p]}
        out == queued \cup {p}
    IN  /\ pc[p] = "goc_99"
        /\ holder' = [holder EXCEPT ![key[p]] = 0]
        /\ pc' = [q \in Procs |-> IF q \in out THEN "idle" ELSE pc[q]]
        /\ ret' = [q \in Procs |-> IF q \in out THEN Raised ELSE ret[q]]
        /\ key' = [q \in Procs |-> IF q \in out THEN NoKey ELSE key[q]]
        /\ ttl' = [q \in Procs |-> IF q \in out THEN 0 ELSE ttl[q]]
        /\ caller' = [q \in Procs |-> IF q \in out THEN NoCaller ELSE caller[q]]
        /\ result' = [q \in Procs |-> IF q \in out THEN None ELSE result[q]]
        /\ sawFail' = [q \in Procs |-> IF q \in out THEN FALSE ELSE sawFail[q]]
        /\ UNCHANGED <<data, locks, global_lock, now>>
        /\ stale' = stale \ {p}
        /\ UNCHANGED ragVars

\* A failure that is cached like a result.
Reraise_Poison(p) ==
    /\ pc[p] = "goc_99"
    /\ data' = [data EXCEPT ![key[p]] = Rec(now + ttl[p], Raised)]
    /\ holder' = [holder EXCEPT ![key[p]] = 0]
    /\ Return(p, Raised)
    /\ sawFail' = [q \in Procs |->
                     IF q = p THEN FALSE
                     ELSE IF pc[q] = "goc_88" /\ key[q] = key[p] THEN TRUE
                     ELSE sawFail[q]]
    /\ UNCHANGED <<locks, global_lock, now>>
    /\ stale' = stale \ {p}
    /\ UNCHANGED ragVars

\* lines 99-101, and the lock's release on the way out
Reraise(p) ==
    /\ pc[p] = "goc_99"
    /\ holder' = [holder EXCEPT ![key[p]] = 0]
    /\ Return(p, Raised)
    /\ sawFail' = [q \in Procs |->
                     IF q = p THEN FALSE
                     ELSE IF pc[q] = "goc_88" /\ key[q] = key[p] THEN TRUE
                     ELSE sawFail[q]]
    /\ UNCHANGED <<data, locks, global_lock, now>>
    /\ stale' = stale \ {p}
    /\ UNCHANGED ragVars

\* A store that drops the key's lock from the registry on the way out.
Store_Discard(p) ==
    /\ pc[p] = "goc_102"
    /\ data' = [data EXCEPT ![key[p]] = Rec(now + ttl[p], result[p])]
    /\ holder' = [holder EXCEPT ![key[p]] = 0]
    /\ locks' = locks \ {key[p]}
    /\ Return(p, result[p])
    /\ sawFail' = [sawFail EXCEPT ![p] = FALSE]
    /\ UNCHANGED <<global_lock, now>>
    /\ stale' = stale \ {p}
    /\ UNCHANGED ragVars

\* lines 102-104, and the lock's release on the way out
Store(p) ==
    /\ pc[p] = "goc_102"
    /\ data' = [data EXCEPT ![key[p]] = Rec(now + ttl[p], result[p])]
    /\ holder' = [holder EXCEPT ![key[p]] = 0]
    /\ Return(p, result[p])
    /\ sawFail' = [sawFail EXCEPT ![p] = FALSE]
    /\ UNCHANGED <<locks, global_lock, now>>
    /\ stale' = stale \ {p}
    /\ UNCHANGED ragVars

\* ------------------------------------------------------------------ invalidate
\* line 107: async with self._global_lock
InvLock(p) ==
    /\ pc[p] = "inv_107"
    /\ global_lock = 0
    /\ global_lock' = p
    /\ Goto(p, "inv_108")
    /\ UNCHANGED <<data, locks, holder, now, sawFail>>
    /\ UNCHANGED stale
    /\ UNCHANGED ragVars

\* An invalidate that removes only what has expired.
InvBody_OnlyExpired(p) ==
    /\ pc[p] = "inv_108"
    /\ data' = IF Expired(data[key[p]], now) THEN Pop(data, key[p]) ELSE data
    /\ global_lock' = 0
    /\ Return(p, None)
    /\ UNCHANGED <<locks, holder, now, sawFail>>
    /\ stale' = stale \cup {q \in Procs : pc[q] = "goc_96" /\ key[q] = key[p]}
    /\ UNCHANGED ragVars

\* line 108
InvBody(p) ==
    /\ pc[p] = "inv_108"
    /\ data' = Pop(data, key[p])
    /\ global_lock' = 0
    /\ Return(p, None)
    /\ UNCHANGED <<locks, holder, now, sawFail>>
    /\ stale' = stale \cup {q \in Procs : pc[q] = "goc_96" /\ key[q] = key[p]}
    /\ UNCHANGED ragVars

\* ------------------------------------------------------------------ time
Tick ==
    /\ now < MaxTime
    /\ now' = now + 1
    /\ UNCHANGED <<data, locks, holder, global_lock, pc, key, ttl, caller, result, ret, sawFail>>
    /\ UNCHANGED stale
    /\ UNCHANGED ragVars

Next ==
    \/ \E p \in Procs, k \in Keys : CallGet(p, k)
    \/ \E p \in Procs, k \in Keys, t \in TTLs : CallGetOrCompute(p, k, t)
    \/ \E p \in Procs, k \in Keys : CallInvalidate(p, k)
    \/ \E p \in Procs : GetCheck(p)
    \/ \E p \in Procs : GetLock(p)
    \/ \E p \in Procs : GetEvict(p)
    \/ \E p \in Procs : RegLock(p)
    \/ \E p \in Procs : RegBody(p)
    \/ \E p \in Procs : Acquire(p)
    \/ \E p \in Procs, val \in Values : ComputeReturn(p, val)
    \/ \E p \in Procs : ComputeRaise(p)
    \/ \E p \in Procs : Reraise(p)
    \/ \E p \in Procs : Store(p)
    \/ \E p \in Procs : InvLock(p)
    \/ \E p \in Procs : InvBody(p)
    \/ Tick

Spec == Init /\ [][Next]_allVars

\* ------------------------------------------------------------------ a burst of callers
\* Every task calls get_or_compute("a", f, ttl) at once; "a" has no valid entry
\* (never stored, invalidated, or stored earlier and expired by now); every
\* coro_func returns; the clock stands still, so no TTL elapses during the burst.
BurstNow == MaxTTL + 1

InitBurst ==
    /\ \E e \in TTLs, old \in Values :
          \/ data = [k \in Keys |-> NoRec] /\ locks \in {{}, {"a"}}
          \/ data = [k \in Keys |-> IF k = "a" THEN Rec(e, old) ELSE NoRec] /\ locks = {"a"}
    /\ holder = [k \in Keys |-> 0]
    /\ global_lock = 0
    /\ now = BurstNow
    /\ pc = [p \in Procs |-> "get_61"]
    /\ key = [p \in Procs |-> "a"]
    /\ ttl \in [Procs -> TTLs]
    /\ caller = [p \in Procs |-> "fast"]
    /\ result = [p \in Procs |-> None]
    /\ ret = [p \in Procs |-> None]
    /\ sawFail = [p \in Procs |-> FALSE]
    /\ stale = {}
    /\ RagOff

NextBurst ==
    \/ \E p \in Procs : GetCheck(p)
    \/ \E p \in Procs : GetLock(p)
    \/ \E p \in Procs : GetEvict(p)
    \/ \E p \in Procs : RegLock(p)
    \/ \E p \in Procs : RegBody(p)
    \/ \E p \in Procs : Acquire(p)
    \/ \E p \in Procs, val \in Values : ComputeReturn(p, val)
    \/ \E p \in Procs : Store(p)

SpecBurst == InitBurst /\ [][NextBurst]_allVars

\* The same burst, when "a" was stored earlier and its TTL has elapsed.
InitExpired ==
    /\ InitBurst
    /\ data["a"].present

SpecExpired == InitExpired /\ [][NextBurst]_allVars

\* ------------------------------------------------------------------ vocabulary of the claims
\* Task p is inside coro_func (line 96 is awaiting).
Computing(p) == pc[p] = "goc_96"

\* Task p has invoked its coro_func in the running call.
Invoked(p) == pc[p] \in {"goc_96", "goc_99", "goc_102"}

\* Task p is in a get_or_compute call for key k.
InGetOrCompute(p, k) ==
    /\ key[p] = k
    /\ \/ pc[p] \in {"goc_82", "goc_83", "goc_88", "goc_96", "goc_99", "goc_102"}
       \/ pc[p] \in {"get_61", "get_67", "get_69"} /\ caller[p] \in {"fast", "recheck"}

\* The step invokes p's coro_func.
Invokes(p) == pc[p] # "goc_96" /\ pc'[p] = "goc_96"

\* The step ends p's running call.
Returns(p) == pc[p] # "idle" /\ pc'[p] = "idle"

AllIdle == \A p \in Procs : pc[p] = "idle"

\* ------------------------------------------------------------------ C1
\* C1: at every instant at most one task is executing the compute function of
\* a given key: two tasks inside coro_func are never working on the same key.
C1_SingleComputePerKey ==
    \A p, q \in Procs : (p # q /\ Computing(p) /\ Computing(q)) => key[p] # key[q]

\* One task is inside coro_func while another get_or_compute of the same key
\* waits at the per-key lock.
C1_Witness ==
    \E p, q \in Procs :
        /\ p # q /\ Computing(p) /\ holder[key[p]] = p
        /\ pc[q] = "goc_88" /\ key[q] = key[p]

\* ------------------------------------------------------------------ C2
\* In a burst a computation has been invoked before exactly when a task is past
\* line 96 or an entry that expires at BurstNow or later is stored (the entries
\* of InitBurst expire earlier, and nothing removes an unexpired entry here).
BurstInvoked ==
    \/ \E q \in Procs : Invoked(q)
    \/ data["a"].present /\ data["a"].expiry >= BurstNow

\* C2: in a burst of N concurrent get_or_compute calls for one key without a
\* valid entry, with compute functions that return and a TTL that does not
\* elapse, the compute function is invoked exactly once in total: no call
\* invokes it after another did, and when all calls are over one did.
C2_ExactlyOneCompute ==
    /\ [][\A p \in Procs : Invokes(p) => ~BurstInvoked]_vars
    /\ [](AllIdle => BurstInvoked)

\* ------------------------------------------------------------------ C3
\* C3: all get_or_compute callers of a burst return the same value (the result
\* of the single computation).
C3_SameValueForAll ==
    \A p, q \in Procs : (pc[p] = "idle" /\ pc[q] = "idle") => ret[p] = ret[q]

C5_FailureNotCached ==
    [][\A p \in Procs :
        /\ (pc[p] = "goc_96" /\ pc'[p] = "goc_99") => data' = data
        /\ (pc[p] = "goc_99" /\ pc'[p] # "goc_99") =>
              /\ data' = data
              /\ pc'[p] = "idle" /\ ret'[p] = Raised
              /\ holder'[key[p]] = 0
              /\ ~(data'[key[p]].present /\ now' <= data'[key[p]].expiry
                     /\ data'[key[p]].value # None)
        /\ (pc[p] = "get_61" /\ caller[p] = "recheck" /\ pc'[p] # "get_61"
              /\ ~(data[key[p]].present /\ data[key[p]].value # None)) =>
              pc'[p] \in {"goc_96", "get_67"}
      ]_vars

\* A compute failed, was raised to its caller, and a task that was queued on
\* the lock at that moment has invoked its own coro_func.
C5_Witness ==
    \E p, q \in Procs :
        /\ pc[p] = "idle" /\ ret[p] = Raised
        /\ sawFail[q] /\ Computing(q) /\ ~data[key[q]].present

\* ------------------------------------------------------------------ C6
\* C6: a get_or_compute that starts while the key holds a stored, unexpired
\* entry returns the stored value from its fast check, without going on to
\* the lock and the compute function, whatever the stored value is.
C6_FastPathServesStored ==
    [][\A p \in Procs :
        (/\ pc[p] = "get_61" /\ caller[p] = "fast" /\ pc'[p] # "get_61"
         /\ data[key[p]].present /\ now <= data[key[p]].expiry) =>
            (pc'[p] = "idle" /\ ret'[p] = data[key[p]].value)
      ]_vars

\* ------------------------------------------------------------------ C7
\* C7: with an entry whose TTL has elapsed, a get that reads it goes on to
\* evict it and hands None to its caller; of the get_or_compute callers that
\* follow exactly one invokes its compute function; and the result is stored
\* with expiry = time of store + ttl.
C7_OneRecomputeAfterExpiry ==
    /\ [][\A p \in Procs :
            /\ (pc[p] = "get_61" /\ pc'[p] # "get_61" /\ data[key[p]].present
                  /\ now > data[key[p]].expiry) => pc'[p] = "get_67"
            /\ Invokes(p) => ~BurstInvoked
            /\ (pc[p] = "goc_102" /\ Returns(p)) =>
                  data'[key[p]] = Rec(now + ttl[p], result[p])
        ]_vars
    /\ [](AllIdle => BurstInvoked)

\* ------------------------------------------------------------------ C8
\* C8: a get returns the stored value when the key's entry is present and
\* now <= expiry, and None otherwise; a get that read an expired entry removes
\* the key's entry inside the global lock if it is (still) expired, and never
\* removes or changes an entry that is not expired, such as one stored after
\* its check; no other key is touched.
C8_GetContract ==
    [][\A p \in Procs :
        LET k == key[p]
            rec == data[k]
        IN  /\ (pc[p] = "get_61" /\ caller[p] = "get" /\ pc'[p] # "get_61") =>
                  /\ data' = data
                  /\ IF rec.present /\ now <= rec.expiry
                     THEN pc'[p] = "idle" /\ ret'[p] = rec.value
                     ELSE IF ~rec.present
                     THEN pc'[p] = "idle" /\ ret'[p] = None
                     ELSE pc'[p] = "get_67"
            /\ (pc[p] = "get_67" /\ pc'[p] # "get_67") =>
                  data' = data /\ pc'[p] = "get_69"
            /\ (pc[p] = "get_69" /\ pc'[p] # "get_69") =>
                  /\ \A j \in Keys \ {k} : data'[j] = data[j]
                  /\ IF rec.present /\ now > rec.expiry
                     THEN ~data'[k].present
                     ELSE data'[k] = rec
                  /\ caller[p] = "get" => (pc'[p] = "idle" /\ ret'[p] = None)
      ]_vars

\* A plain get read an expired entry, and by the time it holds the global lock a
\* get_or_compute has stored a fresh entry for the key.
C8_Witness ==
    \E p \in Procs :
        /\ pc[p] = "get_69" /\ caller[p] = "get"
        /\ data[key[p]].present /\ now <= data[key[p]].expiry

\* ------------------------------------------------------------------ C9
\* C9: when invalidate(key) returns the entry map holds no entry for key,
\* expired or not, and the entries of the other keys are as they were; from
\* then on an entry for the key appears only by the store of a get_or_compute,
\* and a get that reads no entry returns None.
C9_InvalidateRemoves ==
    [][/\ \A p \in Procs :
            /\ (pc[p] = "inv_108" /\ Returns(p)) =>
                  /\ ~data'[key[p]].present
                  /\ \A j \in Keys \ {key[p]} : data'[j] = data[j]
            /\ (pc[p] = "get_61" /\ caller[p] = "get" /\ pc'[p] # "get_61"
                  /\ ~data[key[p]].present) => (Returns(p) /\ ret'[p] = None)
       /\ \A k \in Keys :
            (~data[k].present /\ data'[k].present) =>
                \E q \in Procs : pc[q] = "goc_102" /\ key[q] = k /\ Returns(q)
      ]_vars

\* An invalidate holds the global lock and is about to remove an entry that has
\* not expired, while the other key holds an entry too.
C9_Witness ==
    \E p \in Procs :
        /\ pc[p] = "inv_108"
        /\ data[key[p]].present /\ now <= data[key[p]].expiry
        /\ \E j \in Keys \ {key[p]} : data[j].present

\* ------------------------------------------------------------------ C10
\* C10 as claimed: whenever no get_or_compute call for a key is in progress,
\* the lock registry contains no lock for that key.
C10_RegistryHoldsOnlyOutstanding ==
    \A k \in Keys : (~\E p \in Procs : InGetOrCompute(p, k)) => k \notin locks

\* C10 as the code has it: a key's lock enters the registry at lines 83-84 of a
\* get_or_compute of that key and is never removed; whenever no get_or_compute
\* of the key is in progress its lock is unlocked, and a lock is only ever
\* held by a get_or_compute of its key that is past line 88.
C10_RegistryOnlyGrows ==
    /\ [][/\ locks \subseteq locks'
          /\ \A k \in locks' \ locks : \E p \in Procs : pc[p] = "goc_83" /\ key[p] = k
         ]_vars
    /\ [](\A k \in Keys :
            /\ holder[k] # 0 => (k \in locks /\ InGetOrCompute(holder[k], k))
            /\ (~\E p \in Procs : InGetOrCompute(p, k)) => holder[k] = 0)

\* A key's lock sits in the registry, unlocked, with an entry stored and no
\* get_or_compute of the key in progress.
C10_Witness ==
    \E k \in locks :
        /\ holder[k] = 0 /\ data[k].present
        /\ ~\E p \in Procs : InGetOrCompute(p, k)

\* ------------------------------------------------------------------ C11
\* The steps task q can take inside its running call.
TaskStep(q) ==
    \/ GetCheck(q) \/ GetLock(q) \/ GetEvict(q)
    \/ RegLock(q) \/ RegBody(q) \/ Acquire(q)
    \/ \E val \in Values : ComputeReturn(q, val)
    \/ ComputeRaise(q) \/ Reraise(q) \/ Store(q)
    \/ InvLock(q) \/ InvBody(q)

\* C11: the global lock is never held by a task that is inside coro_func, and
\* a task in a call can always take its next step unless it waits for the
\* global lock, which a task inside one of the three short critical sections
\* holds, or for the lock of its own key, which a caller of that same key
\* holds: a computation in flight for another key never stops it.
C11_OnlySameKeySerialized ==
    \A q \in Procs :
        /\ Computing(q) => global_lock # q
        /\ (pc[q] # "idle" /\ ~ENABLED TaskStep(q)) =>
              \/ /\ pc[q] \in {"get_67", "goc_82", "inv_107"}
                 /\ global_lock \in Procs \ {q}
                 /\ pc[global_lock] \in {"get_69", "goc_83", "inv_108"}
              \/ /\ pc[q] = "goc_88"
                 /\ holder[key[q]] \in Procs \ {q}
                 /\ key[holder[key[q]]] = key[q]

\* Two computations, for two different keys, are in flight at once.
C11_Witness ==
    \E p, q \in Procs : Computing(p) /\ Computing(q) /\ key[p] # key[q]

\* ---------------------------------------------------------------------------
\* backend/Rag_System/rag3.py: text handling.  Strings are sequences of
\* characters; a character is a string of length one.
\* ---------------------------------------------------------------------------

Ch(s, i) == SubSeq(s, i, i)

Uppers == "ABCDEFGHIJKLMNOPQRSTUVWXYZ"
Lowers == "abcdefghijklmnopqrstuvwxyz"
Digits == "0123456789"
\* The printable ASCII characters in code point order: 32 (space) to 95, and
\* 97 to 126.
AsciiLow == " !\"#$%&'()*+,-./0123456789:;<=>?@ABCDEFGHIJKLMNOPQRSTUVWXYZ[\\]^_"
AsciiHigh == "abcdefghijklmnopqrstuvwxyz{|}~"

CharsOf(s) == {Ch(s, i) : i \in 1..Len(s)}
Pos(c, s) == CHOOSE i \in 1..Len(s) : Ch(s, i) = c

UpperChars == CharsOf(Uppers)
LowerChars == CharsOf(Lowers)
DigitChars == CharsOf(Digits)
WordChars == UpperChars \cup LowerChars \cup DigitChars \cup {"_"}

\* \d and \w of the re module, on ASCII text.
IsDigit(c) == c \in DigitChars
IsWord(c) == c \in WordChars

LowerChar(c) == IF c \in UpperChars THEN Ch(Lowers, Pos(c, Uppers)) ELSE c
UpperChar(c) == IF c \in LowerChars THEN Ch(Uppers, Pos(c, Lowers)) ELSE c

RECURSIVE Lower(_)
\* str.lower
Lower(s) == IF s = "" THEN "" ELSE LowerChar(Ch(s, 1)) \o Lower(SubSeq(s, 2, Len(s)))

RECURSIVE Upper(_)
\* str.upper
Upper(s) == IF s = "" THEN "" ELSE UpperChar(Ch(s, 1)) \o Upper(SubSeq(s, 2, Len(s)))

\* The text k stands in s from position i on.
MatchAt(s, k, i) == i >= 1 /\ i + Len(k) - 1 <= Len(s) /\ SubSeq(s, i, i + Len(k) - 1) = k

\* k in s
Contains(s, k) == \E i \in 1..(Len(s) + 1) : MatchAt(s, k, i)

\* \b between the characters at positions i and i+1 of s (i = 0 and
\* i = Len(s) are the two ends of the text).
Bnd(s, i) ==
    LET left == i >= 1 /\ i <= Len(s) /\ IsWord(Ch(s, i))
        right == i + 1 >= 1 /\ i + 1 <= Len(s) /\ IsWord(Ch(s, i + 1))
    IN  left # right

\* re.search(rf"\b{re.escape(k)}\b", s) finds something.
WholeWord(s, k) ==
    \E i \in 1..Len(s) : MatchAt(s, k, i) /\ Bnd(s, i - 1) /\ Bnd(s, i + Len(k) - 1)

Min(S) == CHOOSE x \in S : \A y \in S : x <= y
Max(S) == CHOOSE x \in S : \A y \in S : x >= y

\* Code point order on characters and the order of str on texts.
Code(c) == IF c \in CharsOf(AsciiLow) THEN 31 + Pos(c, AsciiLow) ELSE 96 + Pos(c, AsciiHigh)

RECURSIVE StrLess(_, _)
StrLess(a, b) ==
    IF b = "" THEN FALSE
    ELSE IF a = "" THEN TRUE
    ELSE IF Ch(a, 1) = Ch(b, 1) THEN StrLess(SubSeq(a, 2, Len(a)), SubSeq(b, 2, Len(b)))
    ELSE Code(Ch(a, 1)) < Code(Ch(b, 1))

RECURSIVE Insert(_, _)
\* x put into the sorted list l behind every element that is not greater
Insert(x, l) ==
    IF l = <<>> THEN <<x>>
    ELSE IF StrLess(x, Head(l)) THEN <<x>> \o l
    ELSE <<Head(l)>> \o Insert(x, Tail(l))

RECURSIVE Sorted(_)
\* sorted(l) of a list of texts
Sorted(l) == IF l = <<>> THEN <<>> ELSE Insert(l[Len(l)], Sorted(SubSeq(l, 1, Len(l) - 1)))

Range(l) == {l[i] : i \in 1..Len(l)}

\* ---------------------------------------------------------------------------
\* Routing and expansion of a query.
\* ---------------------------------------------------------------------------

COLLECTION_KEYWORDS == <<
    [name |-> "Units", keywords |-> {"unit", "apartment", "floor", "level", "number", "room", "block", "building", "lot"}],
    [name |-> "Tenants", keywords |-> {"tenant", "name", "contact", "email", "occupant", "resident"}],
    [name |-> "Amenities", keywords |-> {"pool", "gym", "facility", "facilities", "amenity", "recreation", "assigned units", "swimming"}],
    [name |-> "Maintenance", keywords |-> {"issue", "repair", "broken", "clogged", "maintenance", "status", "request", "fix"}],
    [name |-> "Contracts", keywords |-> {"contract", "lease", "rent agreement", "deposit", "start date", "end date", "monthly rent"}],
    [name |-> "Rent", keywords |-> {"rent", "payment", "paid", "unpaid", "due", "month"}],
    [name |-> "ElecBill", keywords |-> {"electricity", "elec", "bill", "power", "paid", "unpaid"}],
    [name |-> "WaterBill", keywords |-> {"water", "bill", "paid", "unpaid"}],
    [name |-> "Expenses", keywords |-> {"expense", "cost", "category", "amount", "date", "repair", "maintenance"}],
    [name |-> "Staff", keywords |-> {"staff", "employee", "worker", "assigned", "role", "contact"}] >>

\* k.lower() for every keyword k
LoweredKeywords ==
    [n \in 1..Len(COLLECTION_KEYWORDS) |->
        [name |-> COLLECTION_KEYWORDS[n].name,
         keywords |-> {Lower(k) : k \in COLLECTION_KEYWORDS[n].keywords}]]

\* Some lowered keyword of the entry occurs in the lowered query q between word boundaries.
KeywordHit(entry, q) == \E k \in entry.keywords : WholeWord(q, k)

detect_collections_Substring(user_query) ==
    LET q == Lower(user_query)
        Hit(entry) == \E k \in entry.keywords : Contains(q, k)
        hits == SelectSeq(LoweredKeywords, Hit)
        selected == [i \in 1..Len(hits) |-> hits[i].name]
    IN  IF selected # <<>> THEN selected ELSE <<"Units">>

detect_collections(user_query) ==
    LET q == Lower(user_query)
        Hit(entry) == KeywordHit(entry, q)
        hits == SelectSeq(LoweredKeywords, Hit)
        selected == [i \in 1..Len(hits) |-> hits[i].name]
    IN  IF selected # <<>> THEN selected ELSE <<"Units">>

\* r"\b<letter>-\d{3}\b" with re.IGNORECASE matches the five characters of
\* text from position i on; letter is given in lower case.
IdAt(text, letter, i) ==
    /\ i + 4 <= Len(text)
    /\ LowerChar(Ch(text, i)) = letter
    /\ Ch(text, i + 1) = "-"
    /\ \A j \in (i + 2)..(i + 4) : IsDigit(Ch(text, j))
    /\ Bnd(text, i - 1)
    /\ Bnd(text, i + 4)

\* re.search of that pattern: the leftmost match, upper-cased, or None.
ExtractId(text, letter) ==
    LET at == {i \in 1..Len(text) : IdAt(text, letter, i)}
    IN  IF at = {} THEN None ELSE Upper(SubSeq(text, Min(at), Min(at) + 4))

extract_unit_id(text) == ExtractId(text, "u")
extract_amenity_id(text) == ExtractId(text, "a")
extract_tenant_id(text) == ExtractId(text, "t")

\* The list expand_query collects before it removes duplicates.
Expansions(user_query) ==
    LET unit_id == extract_unit_id(user_query)
    IN  <<user_query>>
        \o (IF unit_id # None
            THEN <<"Unit " \o unit_id, "Apartment " \o unit_id, "Property " \o unit_id>>
            ELSE <<>>)
        \o (IF Contains(Lower(user_query), "rent")
            THEN <<"lease", "rental fee", "monthly rent">> ELSE <<>>)
        \o (IF Contains(Lower(user_query), "tenant")
            THEN <<"occupant", "resident", "renter">> ELSE <<>>)

RECURSIVE FirstSeen(_)
\* The elements of l, each once, in the order of their first occurrence.
FirstSeen(l) ==
    IF l = <<>> THEN <<>>
    ELSE LET front == FirstSeen(SubSeq(l, 1, Len(l) - 1))
         IN  IF l[Len(l)] \in Range(front) THEN front ELSE Append(front, l[Len(l)])

Reverse(l) == [i \in 1..Len(l) |-> l[Len(l) + 1 - i]]
Rotate(l, r) == [i \in 1..Len(l) |-> l[((i - 1 + r) % Len(l)) + 1]]

\* set(l) has no order of its own: iterating it yields its elements in an
\* order that depends on the hash seed of the process.  The orders taken
\* here are the rotations of the first-seen order and their reversals.
SetOrders(l) ==
    LET e == FirstSeen(l)
    IN  {Rotate(e, r) : r \in 0..(Len(e) - 1)} \cup {Reverse(Rotate(e, r)) : r \in 0..(Len(e) - 1)}

expand_query_Unsorted(order) == order

\* list(sorted(set(expansions))), the set being iterated in the given order.
expand_query_from(order) == Sorted(order)

\* ---------------------------------------------------------------------------
\* The endpoint jobs of a query.
\* ---------------------------------------------------------------------------

\* Length of the longest run of characters of the class from position d on.
Run(text, d, class) ==
    LET other == {j \in d..Len(text) : Ch(text, j) \notin class}
    IN  IF other = {} THEN Len(text) + 1 - d ELSE Min(other) - d

\* Last position of a match of r"\bBILL[-_ ]?\d+\b" (re.IGNORECASE) that
\* starts at position i, or 0.  The digits are taken greedily; giving one
\* back never creates a word boundary.
BillEnd(text, i) ==
    IF ~(Bnd(text, i - 1) /\ i + 3 <= Len(text) /\ Lower(SubSeq(text, i, i + 3)) = "bill")
    THEN 0
    ELSE LET d == IF i + 4 <= Len(text) /\ Ch(text, i + 4) \in {"-", "_", " "} THEN i + 5 ELSE i + 4
             n == Run(text, d, DigitChars)
         IN  IF n >= 1 /\ Bnd(text, d + n - 1) THEN d + n - 1 ELSE 0

extract_bill_id(text) ==
    LET at == {i \in 1..Len(text) : BillEnd(text, i) # 0}
    IN  IF at = {} THEN None ELSE SubSeq(text, Min(at), BillEnd(text, Min(at)))

\* r"\b(20\d{2}-\d{2})\b" matches the seven characters from position i on.
MonthAt(text, i) ==
    /\ i + 6 <= Len(text)
    /\ SubSeq(text, i, i + 1) = "20"
    /\ \A j \in {i + 2, i + 3, i + 5, i + 6} : IsDigit(Ch(text, j))
    /\ Ch(text, i + 4) = "-"
    /\ Bnd(text, i - 1)
    /\ Bnd(text, i + 6)

\* datetime.now().strftime("%Y-%m") at the time of the query
CurrentMonth == "2025-09"

extract_month(text) ==
    LET at == {i \in 1..Len(text) : MonthAt(text, i)}
    IN  IF at # {} THEN SubSeq(text, Min(at), Min(at) + 6)
        ELSE IF Contains(Lower(text), "this month") THEN CurrentMonth
        ELSE None

\* [a-zA-Z0-9_ -]
RoleChars == UpperChars \cup LowerChars \cup DigitChars \cup {"_", " ", "-"}

\* The ways r"\brole[: ]+([a-zA-Z0-9_ -]+)\b" (re.IGNORECASE) matches from
\* position i on: <<n, m>> for n separators followed by a group of m characters.
RoleSplits(text, i) ==
    IF ~(Bnd(text, i - 1) /\ i + 3 <= Len(text) /\ Lower(SubSeq(text, i, i + 3)) = "role")
    THEN {}
    ELSE UNION {LET longest == Run(text, i + 4 + n, RoleChars)
                IN  {<<n, m>> : m \in {x \in 1..longest : Bnd(text, i + 3 + n + x)}}
                : n \in 1..Run(text, i + 4, {":", " "})}

\* m.group(1) of re.search with that pattern, or None: the leftmost start,
\* there the longest run of separators, and then the longest group.
extract_role(text) ==
    LET at == {i \in 1..Len(text) : RoleSplits(text, i) # {}}
    IN  IF at = {} THEN None
        ELSE LET i == Min(at)
                 splits == RoleSplits(text, i)
                 n == Max({nm[1] : nm \in splits})
                 m == Max({nm[2] : nm \in {x \in splits : x[1] = n}})
             IN  SubSeq(text, i + 4 + n, i + 3 + n + m)

RECURSIVE quote_plus(_)
\* urllib.parse.quote_plus on a text of RoleChars: letters, digits, "_" and "-" are
\* kept, a space becomes "+".
quote_plus(t) ==
    IF t = "" THEN ""
    ELSE (IF Ch(t, 1) = " " THEN "+" ELSE Ch(t, 1)) \o quote_plus(SubSeq(t, 2, Len(t)))

API_BASE == "http://localhost:8000"

RECURSIVE RStripSlash(_)
\* str.rstrip('/')
RStripSlash(t) ==
    IF t # "" /\ Ch(t, Len(t)) = "/" THEN RStripSlash(SubSeq(t, 1, Len(t) - 1)) ELSE t

NoParams == {}
\* params={"q": user_query}, as the set of its items
QParams(user_query) == {<<"q", user_query>>}

\* add(path, params, coll_tag): the job it appends.
Add(path, params, coll_tag) ==
    <<[tag |-> coll_tag, url |-> RStripSlash(API_BASE) \o path, params |-> params]>>

When(cond, js) == IF cond THEN js ELSE <<>>

\* The jobs one pass of the loop over target_collections adds.
JobsFor(coll, user_query, unit) ==
    LET t_id == extract_tenant_id(user_query)
        a_id == extract_amenity_id(user_query)
        b_id == extract_bill_id(user_query)
        month == extract_month(user_query)
        role == extract_role(user_query)
        has_unit == unit # None
    IN  CASE coll = "Units" ->
                Add("/units/summary/", NoParams, "UnitsSummary")
                \o When(has_unit,
                        Add("/units/" \o unit, NoParams, "Unit")
                        \o Add("/units/" \o unit \o "/tenant", NoParams, "UnitTenant")
                        \o Add("/units/" \o unit \o "/bills", NoParams, "UnitBills")
                        \o Add("/units/" \o unit \o "/maintenance", NoParams, "UnitMaintenance")
                        \o Add("/units/" \o unit \o "/amenities", NoParams, "UnitAmenities"))
          [] coll = "Tenants" ->
                Add("/tenants/", NoParams, "Tenants")
                \o (IF t_id # None
                    THEN Add("/tenants/" \o t_id, NoParams, "Tenant")
                         \o Add("/tenants/" \o t_id \o "/contract", NoParams, "TenantContract")
                         \o Add("/tenants/" \o t_id \o "/bills", NoParams, "TenantBills")
                         \o Add("/tenants/" \o t_id \o "/rent", NoParams, "TenantRent")
                         \o Add("/tenants/" \o t_id \o "/maintenance", NoParams, "TenantMaintenance")
                    ELSE IF has_unit
                    THEN Add("/tenants/unit/" \o unit, NoParams, "TenantByUnit")
                    ELSE Add("/tenants/search/", QParams(user_query), "TenantSearch"))
          [] coll = "Amenities" ->
                IF a_id # None
                THEN Add("/amenities/" \o a_id, NoParams, "Amenity")
                ELSE IF has_unit
                THEN Add("/amenities/units/" \o unit, NoParams, "AmenitiesForUnit")
                ELSE Add("/amenities/", NoParams, "Amenities")
                     \o Add("/amenities/search/", QParams(user_query), "AmenitySearch")
          [] coll = "Maintenance" ->
                Add("/maintenance/summary/", NoParams, "MaintenanceSummary")
                \o Add("/maintenance/pending/", NoParams, "MaintPending")
                \o Add("/maintenance/resolved/", NoParams, "MaintResolved")
                \o When(has_unit, Add("/maintenance/unit/" \o unit, NoParams, "MaintenanceForUnit"))
          [] coll = "Contracts" ->
                Add("/contracts/", NoParams, "Contracts")
                \o Add("/contracts/expiring/", NoParams, "ContractsExpiring")
                \o When(t_id # None, Add("/contracts/tenant/" \o t_id, NoParams, "ContractByTenant"))
          [] coll = "Rent" ->
                Add("/rent/summary/monthly", NoParams, "RentMonthly")
                \o Add("/rent/unpaid/", NoParams, "RentUnpaid")
                \o When(has_unit,
                        Add("/rent/unit/" \o unit, NoParams, "RentForUnit")
                        \o When(month # None,
                                Add("/rent/unit/" \o unit \o "/month/" \o month, NoParams, "RentUnitMonth")))
                \o When(t_id # None, Add("/rent/tenant/" \o t_id, NoParams, "RentByTenant"))
          [] coll \in {"ElecBill", "WaterBill"} ->
                Add("/bills/summary/", NoParams, "BillsSummary")
                \o Add("/bills/electric/", NoParams, "ElectricBills")
                \o Add("/bills/water/", NoParams, "WaterBills")
                \o When(b_id # None,
                        Add("/bills/electric/" \o b_id, NoParams, "ElectricBill")
                        \o Add("/bills/water/" \o b_id, NoParams, "WaterBill"))
                \o When(has_unit, Add("/bills/unit/" \o unit, NoParams, "BillsForUnit"))
          [] coll = "Expenses" ->
                Add("/expenses/summary/by-category", NoParams, "ExpensesByCategory")
                \o Add("/expenses/", NoParams, "Expenses")
                \o Add("/expenses/categories/", NoParams, "ExpenseCategories")
          [] coll = "Staff" ->
                Add("/staff/summary/", NoParams, "StaffSummary")
                \o Add("/staff/roles/", NoParams, "StaffRoles")
                \o When(role # None, Add("/staff/role/" \o quote_plus(role), NoParams, "StaffByRole"))
          [] OTHER ->
                Add("/summary", NoParams, "PropertySummary")
                \o Add("/summary/bills", NoParams, "BillsSummaryLegacy")

RECURSIVE CollectionJobs(_, _, _)
\* for coll in target_collections: ...
CollectionJobs(colls, user_query, unit) ==
    IF colls = <<>> THEN <<>>
    ELSE JobsFor(Head(colls), user_query, unit) \o CollectionJobs(Tail(colls), user_query, unit)

\* The two endpoints added behind the loop, whatever it added.
FallbackJobs ==
    Add("/summary", NoParams, "PropertySummary") \o Add("/bills/summary/", NoParams, "BillsSummary")

RECURSIVE AssignedJobs(_)
\* for u in (assigned_units or []): ...
AssignedJobs(units) ==
    IF units = <<>> THEN <<>>
    ELSE Add("/units/" \o Head(units), NoParams, "Unit_" \o Head(units))
         \o Add("/units/" \o Head(units) \o "/bills", NoParams, "UnitBills_" \o Head(units))
         \o AssignedJobs(Tail(units))

build_api_jobs_NoFallback(user_query, target_collections, assigned_units, unit_arg) ==
    LET unit == IF unit_arg = None THEN extract_unit_id(user_query) ELSE unit_arg
    IN  CollectionJobs(target_collections, user_query, unit)
        \o AssignedJobs(assigned_units)

build_api_jobs(user_query, target_collections, assigned_units, unit_arg) ==
    LET unit == IF unit_arg = None THEN extract_unit_id(user_query) ELSE unit_arg
    IN  CollectionJobs(target_collections, user_query, unit)
        \o FallbackJobs
        \o AssignedJobs(assigned_units)

\* key = (url, tuple(sorted(params.items())))
JobKey(job) == <<job.url, job.params>>

RECURSIVE Dedupe_KeepLast(_)
Dedupe_KeepLast(js) ==
    IF js = <<>> THEN <<>>
    ELSE LET rest == Dedupe_KeepLast(Tail(js))
         IN  IF JobKey(Head(js)) \in {JobKey(rest[i]) : i \in 1..Len(rest)}
             THEN rest ELSE <<Head(js)>> \o rest

RECURSIVE Dedupe(_)
\* dedup_jobs: each key once, the job of its first occurrence, in that order.
Dedupe(js) ==
    IF js = <<>> THEN <<>>
    ELSE LET front == Dedupe(SubSeq(js, 1, Len(js) - 1))
             last == js[Len(js)]
         IN  IF JobKey(last) \in {JobKey(front[i]) : i \in 1..Len(front)}
             THEN front ELSE Append(front, last)

\* ---------------------------------------------------------------------------
\* One query answered by hybrid_generate_answer: retrieve_chunks (line 488),
\* retrieve_chunks once more inside generate_answer (line 418), then
\* fetch_realtime_context (line 432).
\* ---------------------------------------------------------------------------

MaxWords == 2
MaxItems == 4
MaxWorkers == 3
Retries == 2
BackoffBase == 1

\* The queries put to the program: up to MaxWords of these pieces, one space between.
Pieces == {"rent", "rental", "Tenant", "U-101", "unit U-101", "u-202x", "T-001", "pool",
           "BILL-7", "this month", "role: night guard", "hello", "monthly rent"}

RECURSIVE Phrases(_)
Phrases(n) ==
    IF n = 0 THEN {""}
    ELSE IF n = 1 THEN Pieces
    ELSE Phrases(n - 1) \cup {a \o " " \o b : a \in Phrases(n - 1), b \in Pieces}

Queries == Phrases(0) \cup Phrases(MaxWords)

\* The assigned_units retrieve_chunks may read from the metadata of the
\* Amenities documents: the sorted list of a set of upper-cased unit ids,
\* empty unless Amenities was among the collections queried.
AssignedChoices(colls) ==
    IF "Amenities" \in Range(colls)
    THEN {<<>>, <<"U-101">>, <<"U-101", "U-303">>}
    ELSE {<<>>}

\* dedup_jobs[:max_items]
JobsToRun_All(dedup) == dedup
JobsToRun(dedup) == SubSeq(dedup, 1, Min({Len(dedup), MaxItems}))

routeVars == <<query, expansions, collections, target_unit, assigned, jobs, dedup_jobs, jobs_to_run>>
fetchVars == <<jstate, tries, delays, results, context>>

\* The text a stage label ends with: "1" for the first retrieve_chunks, "2" for the second.
Pass(label) == Ch(label, Len(label))

\* line 126: expanded_queries = expand_query(user_query)
ExpandQuery ==
    /\ rpc \in {"expand_1", "expand_2"}
    /\ \E order \in SetOrders(Expansions(query)) : expansions' = expand_query_from(order)
    /\ rpc' = "detect_" \o Pass(rpc)
    /\ UNCHANGED <<query, collections, target_unit, assigned, jobs, dedup_jobs, jobs_to_run>>
    /\ UNCHANGED fetchVars
    /\ UNCHANGED <<vars, answerVars>>

\* lines 127-129: target_collections and target_unit
DetectCollections ==
    /\ rpc \in {"detect_1", "detect_2"}
    /\ collections' = detect_collections(query)
    /\ target_unit' = extract_unit_id(query)
    /\ rpc' = "query_" \o Pass(rpc)
    /\ UNCHANGED <<query, expansions, assigned, jobs, dedup_jobs, jobs_to_run>>
    /\ UNCHANGED fetchVars
    /\ UNCHANGED <<vars, answerVars>>

\* lines 138-176: the collections are queried and assigned_units is read off
QueryCollections ==
    /\ rpc \in {"query_1", "query_2"}
    /\ assigned' \in AssignedChoices(collections)
    /\ rpc' = IF rpc = "query_1" THEN "expand_2" ELSE "build"
    /\ UNCHANGED <<query, expansions, collections, target_unit, jobs, dedup_jobs, jobs_to_run>>
    /\ UNCHANGED fetchVars
    /\ UNCHANGED <<vars, answerVars>>

\* line 360
BuildJobs ==
    /\ rpc = "build"
    /\ jobs' = build_api_jobs(query, collections, assigned, target_unit)
    /\ rpc' = "dedupe"
    /\ UNCHANGED <<query, expansions, collections, target_unit, assigned, dedup_jobs, jobs_to_run>>
    /\ UNCHANGED fetchVars
    /\ UNCHANGED <<vars, answerVars>>

\* lines 362-370
DedupeJobs ==
    /\ rpc = "dedupe"
    /\ dedup_jobs' = Dedupe(jobs)
    /\ rpc' = "select"
    /\ UNCHANGED <<query, expansions, collections, target_unit, assigned, jobs, jobs_to_run>>
    /\ UNCHANGED fetchVars
    /\ UNCHANGED <<vars, answerVars>>

\* The workers' bookkeeping before any job of js has been submitted.
Submitted(js) ==
    /\ jstate = [i \in 1..Len(js) |-> "queued"]
    /\ tries = [i \in 1..Len(js) |-> 0]
    /\ delays = [i \in 1..Len(js) |-> <<>>]
    /\ results = <<>>
    /\ context = <<>>

\* lines 372-377 and the submits of line 395
SelectJobs ==
    /\ rpc = "select"
    /\ jobs_to_run' = JobsToRun(dedup_jobs)
    /\ jstate' = [i \in 1..Len(jobs_to_run') |-> "queued"]
    /\ tries' = [i \in 1..Len(jobs_to_run') |-> 0]
    /\ delays' = [i \in 1..Len(jobs_to_run') |-> <<>>]
    /\ rpc' = "fetch"
    /\ UNCHANGED <<query, expansions, collections, target_unit, assigned, jobs, dedup_jobs>>
    /\ UNCHANGED <<results, context>>
    /\ UNCHANGED <<vars, answerVars>>

InitRoute ==
    /\ CacheIdle
    /\ query \in Queries
    /\ rpc = "expand_1"
    /\ expansions = <<>>
    /\ collections = <<>>
    /\ target_unit = None
    /\ assigned = <<>>
    /\ jobs = <<>>
    /\ dedup_jobs = <<>>
    /\ jobs_to_run = <<>>
    /\ Submitted(<<>>)
    /\ AnswerOff

NextRoute ==
    \/ ExpandQuery
    \/ DetectCollections
    \/ QueryCollections
    \/ BuildJobs
    \/ DedupeJobs
    \/ SelectJobs

SpecRoute == InitRoute /\ [][NextRoute]_allVars

\* ---------------------------------------------------------------------------
\* fetch_realtime_context from line 379 on: the workers of the pool run
\* _worker, and with it safe_get, on the jobs of jobs_to_run.
\* ---------------------------------------------------------------------------

\* Queries whose fetch is followed through: one with fewer jobs than workers,
\* one whose duplicates leave exactly max_items jobs, one with more.
FetchQueries == {"hello", "BILL-7", "unit U-101"}

Jobs == 1..Len(jobs_to_run)

\* Jobs a worker is busy with, asleep between attempts included.
InFlight == {i \in Jobs : jstate[i] \in {"get", "sleep"}}

\* What session.get and the parsing of lines 331-336 can hand back as payload.
Bodies == {"json", "status_error"}

\* One entry of results: (coll_tag, url, payload, elapsed) without the timing.
Outcome(i, payload) == [tag |-> jobs_to_run[i].tag, url |-> jobs_to_run[i].url, payload |-> payload]

\* The positions of results that belong to job i.
ResultsOf(i) ==
    {k \in 1..Len(results) : results[k].tag = jobs_to_run[i].tag /\ results[k].url = jobs_to_run[i].url}

StartJob_NoCap(i) ==
    /\ rpc = "fetch"
    /\ jstate[i] = "queued"
    /\ \A j \in 1..(i - 1) : jstate[j] # "queued"
    /\ jstate' = [jstate EXCEPT ![i] = "get"]
    /\ UNCHANGED <<rpc, tries, delays, results, context>>
    /\ UNCHANGED routeVars
    /\ UNCHANGED <<vars, answerVars>>

\* A worker of the pool takes the next job off the queue: the pool has at
\* most max_workers threads, each busy with one job at a time.
StartJob(i) ==
    /\ rpc = "fetch"
    /\ jstate[i] = "queued"
    /\ \A j \in 1..(i - 1) : jstate[j] # "queued"
    /\ Cardinality(InFlight) < MaxWorkers
    /\ jstate' = [jstate EXCEPT ![i] = "get"]
    /\ UNCHANGED <<rpc, tries, delays, results, context>>
    /\ UNCHANGED routeVars
    /\ UNCHANGED <<vars, answerVars>>

\* lines 329-338 and 384-388: session.get answers; whatever the status, safe_get
\* returns ok and the worker appends the payload.
GetAnswered(i, body) ==
    /\ rpc = "fetch"
    /\ jstate[i] = "get"
    /\ tries' = [tries EXCEPT ![i] = @ + 1]
    /\ results' = Append(results, Outcome(i, body))
    /\ jstate' = [jstate EXCEPT ![i] = "done"]
    /\ UNCHANGED <<rpc, delays, context>>
    /\ UNCHANGED routeVars
    /\ UNCHANGED <<vars, answerVars>>

GetFailed_SleepAfterLast(i) ==
    LET attempt == tries[i]
    IN  /\ rpc = "fetch"
        /\ jstate[i] = "get"
        /\ tries' = [tries EXCEPT ![i] = @ + 1]
        /\ delays' = [delays EXCEPT ![i] = Append(@, BackoffBase * (2 ^ attempt))]
        /\ IF attempt = Retries
           THEN /\ results' = Append(results, Outcome(i, "error"))
                /\ jstate' = [jstate EXCEPT ![i] = "done"]
           ELSE /\ jstate' = [jstate EXCEPT ![i] = "sleep"]
                /\ UNCHANGED results
        /\ UNCHANGED <<rpc, context>>
        /\ UNCHANGED routeVars
        /\ UNCHANGED <<vars, answerVars>>

GetFailed_Dropped(i) ==
    LET attempt == tries[i]
    IN  /\ rpc = "fetch"
        /\ jstate[i] = "get"
        /\ tries' = [tries EXCEPT ![i] = @ + 1]
        /\ IF attempt = Retries
           THEN /\ jstate' = [jstate EXCEPT ![i] = "done"]
                /\ UNCHANGED <<delays, results>>
           ELSE /\ delays' = [delays EXCEPT ![i] = Append(@, BackoffBase * (2 ^ attempt))]
                /\ jstate' = [jstate EXCEPT ![i] = "sleep"]
                /\ UNCHANGED results
        /\ UNCHANGED <<rpc, context>>
        /\ UNCHANGED routeVars
        /\ UNCHANGED <<vars, answerVars>>

\* lines 339-346 and 389-391: session.get raises.  On the last attempt
\* safe_get returns the error and the worker appends it; before that it
\* sleeps backoff_base * 2 ** attempt.
GetFailed(i) ==
    LET attempt == tries[i]
    IN  /\ rpc = "fetch"
        /\ jstate[i] = "get"
        /\ tries' = [tries EXCEPT ![i] = @ + 1]
        /\ IF attempt = Retries
           THEN /\ results' = Append(results, Outcome(i, "error"))
                /\ jstate' = [jstate EXCEPT ![i] = "done"]
                /\ UNCHANGED delays
           ELSE /\ delays' = [delays EXCEPT ![i] = Append(@, BackoffBase * (2 ^ attempt))]
                /\ jstate' = [jstate EXCEPT ![i] = "sleep"]
                /\ UNCHANGED results
        /\ UNCHANGED <<rpc, context>>
        /\ UNCHANGED routeVars
        /\ UNCHANGED <<vars, answerVars>>

\* line 346 returns: the next pass of the loop of line 326
Wake(i) ==
    /\ rpc = "fetch"
    /\ jstate[i] = "sleep"
    /\ jstate' = [jstate EXCEPT ![i] = "get"]
    /\ UNCHANGED <<rpc, tries, delays, results, context>>
    /\ UNCHANGED routeVars
    /\ UNCHANGED <<vars, answerVars>>

\* ctx_parts of the results given: one section per entry, in the order of the list.
Sections(rs) == rs

\* lines 394-409: the pool is left when every worker is through, and the
\* context is put together from results.
Assemble ==
    /\ rpc = "fetch"
    /\ \A i \in Jobs : jstate[i] = "done"
    /\ context' = Sections(results)
    /\ rpc' = "done"
    /\ UNCHANGED <<jstate, tries, delays, results>>
    /\ UNCHANGED routeVars
    /\ UNCHANGED <<vars, answerVars>>

\* The state SelectJobs leaves behind for a query of FetchQueries.
InitFetch ==
    /\ CacheIdle
    /\ query \in FetchQueries
    /\ rpc = "fetch"
    /\ expansions \in {expand_query_from(order) : order \in SetOrders(Expansions(query))}
    /\ collections = detect_collections(query)
    /\ target_unit = extract_unit_id(query)
    /\ assigned \in AssignedChoices(collections)
    /\ jobs = build_api_jobs(query, collections, assigned, target_unit)
    /\ dedup_jobs = Dedupe(jobs)
    /\ jobs_to_run = JobsToRun(dedup_jobs)
    /\ Submitted(jobs_to_run)
    /\ AnswerOff

NextFetch ==
    \/ \E i \in Jobs : StartJob(i)
    \/ \E i \in Jobs, body \in Bodies : GetAnswered(i, body)
    \/ \E i \in Jobs : GetFailed(i)
    \/ \E i \in Jobs : Wake(i)
    \/ Assemble

SpecFetch == InitFetch /\ [][NextFetch]_allVars

\* Job i has failed for good.
Failed(i) == jstate[i] = "done" /\ \E k \in ResultsOf(i) : results[k].payload = "error"

\* C12: a request of safe_get that fails on every attempt is tried exactly
\* retries+1 times with exactly `retries` sleeps in between, the k-th of them
\* (k = 0, 1, ...) lasting backoff_base * 2^k; no sleep follows the last attempt.
C12_RetriesAndBackoff ==
    \A i \in Jobs :
        /\ tries[i] <= Retries + 1
        /\ \A k \in 1..Len(delays[i]) : delays[i][k] = BackoffBase * (2 ^ (k - 1))
        /\ \A k \in 2..Len(delays[i]) : delays[i][k] >= delays[i][k - 1]
        /\ jstate[i] = "sleep" => Len(delays[i]) = tries[i] /\ tries[i] <= Retries
        /\ Failed(i) => tries[i] = Retries + 1 /\ Len(delays[i]) = Retries

C12_Witness == \E i \in Jobs : Failed(i)

\* C13: every job selected for execution leaves exactly one entry in results,
\* a payload or an error, whatever the other jobs do: a job that has failed
\* for good is recorded as an error, the fetch goes on to its end, and the
\* jobs still queued are started as workers come free.
C13_OneOutcomePerJob ==
    /\ \A i \in Jobs :
          /\ jstate[i] = "done" => Cardinality(ResultsOf(i)) = 1
          /\ jstate[i] # "done" => ResultsOf(i) = {}
          /\ tries[i] = Retries + 1 /\ jstate[i] = "done" => ResultsOf(i) # {}
    /\ \A k \in 1..Len(results) :
          /\ results[k].payload \in Bodies \cup {"error"}
          /\ \E i \in Jobs : k \in ResultsOf(i)
    /\ rpc = "fetch" => ENABLED NextFetch
    /\ (rpc = "fetch" /\ Cardinality(InFlight) < MaxWorkers /\ \E i \in Jobs : jstate[i] = "queued")
          => ENABLED (\E i \in Jobs : StartJob(i))
    /\ rpc = "done" => Len(context) = Len(jobs_to_run)

\* A job has failed for good, a sibling was recorded after it, and the
\* context has been put together.
C13_Witness ==
    /\ rpc = "done"
    /\ \E i, j \in Jobs :
          /\ Failed(i)
          /\ ~Failed(j)
          /\ \E a \in ResultsOf(i), b \in ResultsOf(j) : a < b

\* C14: the sections of the context returned by fetch_realtime_context stand
\* in the order of the deduplicated job list, whatever the order in which
\* the workers finish.
C14_SectionsInJobOrder ==
    rpc = "done" =>
        /\ Len(context) = Len(jobs_to_run)
        /\ \A i \in 1..Len(context) :
              context[i].tag = jobs_to_run[i].tag /\ context[i].url = jobs_to_run[i].url

\* Some entry of results belongs to the job.
Fetched(job) == \E k \in 1..Len(results) : results[k].tag = job.tag /\ results[k].url = job.url

\* C15: fetch_realtime_context executes at most max_items jobs per query.  Of
\* a longer deduplicated list exactly the first max_items jobs, in the order
\* of the builder, are executed; the others are never fetched.
C15_AtMostMaxItems ==
    /\ Len(jobs_to_run) <= MaxItems
    /\ Len(jobs_to_run) = Min({Len(dedup_jobs), MaxItems})
    /\ \A k \in 1..Len(jobs_to_run) : jobs_to_run[k] = dedup_jobs[k]
    /\ \A k \in (MaxItems + 1)..Len(dedup_jobs) : ~Fetched(dedup_jobs[k])
    /\ Len(results) <= MaxItems
    /\ rpc = "done" => \A k \in 1..Len(dedup_jobs) : Fetched(dedup_jobs[k]) <=> k <= MaxItems

\* The fetch of a query with more than max_items distinct jobs has come to its end.
C15_Witness == rpc = "done" /\ Len(dedup_jobs) > MaxItems

\* C16: at every instant of fetch_realtime_context at most 3 jobs are in
\* flight, jobs asleep between two attempts included, however many jobs were
\* selected.
C16_AtMostThreeInFlight == Cardinality(InFlight) <= 3

\* Three jobs are in flight, one of them asleep, and a fourth is waiting.
C16_Witness ==
    /\ Cardinality(InFlight) = 3
    /\ \E i \in Jobs : jstate[i] = "sleep"
    /\ \E i \in Jobs : jstate[i] = "queued"

\* The jobs have been built (and, from "select" on, deduplicated).
Built == rpc \in {"dedupe", "select", "fetch"}
Deduped == rpc \in {"select", "fetch"}

\* Position in jobs of the first job with the key of dedup_jobs[k].
FirstAt(k) == Min({n \in 1..Len(jobs) : JobKey(jobs[n]) = JobKey(dedup_jobs[k])})

\* C17: for every query and routing result the deduplicated job list holds no
\* two jobs with the same (url, parameters); it holds every key the builder
\* emitted, each with the job (tag included) of its first occurrence and in
\* the order of the first occurrences.
C17_NoDuplicateJobs ==
    Deduped =>
        /\ \A k, l \in 1..Len(dedup_jobs) : JobKey(dedup_jobs[k]) = JobKey(dedup_jobs[l]) => k = l
        /\ {JobKey(dedup_jobs[k]) : k \in 1..Len(dedup_jobs)} = {JobKey(jobs[n]) : n \in 1..Len(jobs)}
        /\ \A k \in 1..Len(dedup_jobs) : dedup_jobs[k] = jobs[FirstAt(k)]
        /\ \A k, l \in 1..Len(dedup_jobs) : k < l => FirstAt(k) < FirstAt(l)

\* The builder emitted one key twice under two tags, and the list has been deduplicated.
C17_Witness ==
    /\ Deduped
    /\ \E a, b \in 1..Len(jobs) :
          a < b /\ JobKey(jobs[a]) = JobKey(jobs[b]) /\ jobs[a].tag # jobs[b].tag

HasUrl(js, path) == \E n \in 1..Len(js) : js[n].url = RStripSlash(API_BASE) \o path /\ js[n].params = NoParams

\* C18: for every query and every routing, the default-only routing of a
\* query without a keyword included, the job list of build_api_jobs holds
\* the job of /summary and the job of /bills/summary/.
C18_FallbackJobsPresent ==
    Built => HasUrl(jobs, "/summary") /\ HasUrl(jobs, "/bills/summary/")

\* No keyword of any collection occurs in the query, and its jobs have been built.
C18_Witness ==
    /\ Built
    /\ query # ""
    /\ LET q == Lower(query)
       IN  \A n \in 1..Len(COLLECTION_KEYWORDS) :
              \A k \in COLLECTION_KEYWORDS[n].keywords : ~Contains(q, k)

\* The keyword k occurs in the text q with no letter, digit or underscore
\* directly before or behind it.
OccursAsWord(q, k) ==
    \E i \in 1..Len(q) :
        LET j == i + Len(k) - 1
        IN  /\ j <= Len(q)
            /\ SubSeq(q, i, j) = k
            /\ i = 1 \/ ~IsWord(Ch(q, i - 1))
            /\ j = Len(q) \/ ~IsWord(Ch(q, j + 1))

Routed == rpc \notin {"off", "expand_1", "detect_1"}

\* C19: detect_collections returns a non-empty list for every query.  A
\* collection is selected exactly when one of its keywords occurs in the
\* query as a whole word, case ignored; when none is, the result is the
\* single collection Units.
C19_DetectCollections ==
    Routed =>
        LET q == Lower(query)
            hit == {n \in 1..Len(COLLECTION_KEYWORDS) :
                      \E k \in COLLECTION_KEYWORDS[n].keywords : OccursAsWord(q, k)}
        IN  /\ collections # <<>>
            /\ hit # {} => Range(collections) = {COLLECTION_KEYWORDS[n].name : n \in hit}
            /\ hit # {} => Len(collections) = Cardinality(hit)
            /\ hit = {} => collections = <<"Units">>

\* A query that holds the keyword "rent" inside a longer word only has been
\* routed to the default collection.
C19_Witness ==
    /\ Routed
    /\ Contains(Lower(query), "rent")
    /\ collections = <<"Units">>
    /\ ~OccursAsWord(Lower(query), "unit")

\* C20: expand_query is a function of its input: its list is sorted, holds no
\* text twice, always holds the query verbatim, and a second call on the same
\* query returns the same list.
C20_ExpandQuery ==
    [][(rpc = "expand_1" \/ rpc = "expand_2") =>
          (/\ \A i \in 1..(Len(expansions') - 1) : StrLess(expansions'[i], expansions'[i + 1])
           /\ query \in Range(expansions')
           /\ Range(expansions') = Range(Expansions(query))
           /\ rpc = "expand_2" => expansions' = expansions)
      ]_allVars

\* The second call has returned, for a query that is itself one of the texts added to it.
C20_Witness ==
    /\ rpc = "detect_2"
    /\ Len(expansions) < Len(Expansions(query))
    /\ Len(expansions) > 1

\* ---------------------------------------------------------------------------
\* generate_answer from line 420 on: the chroma snippet, the realtime fetch,
\* the final context and the call of the generation service.
\* ---------------------------------------------------------------------------

TOP_K == 2

\* Position of a collection in COLLECTION_KEYWORDS.
CollIndex(c) == CHOOSE n \in 1..Len(COLLECTION_KEYWORDS) : COLLECTION_KEYWORDS[n].name = c

\* The j-th nearest document the index holds in collection c, with the
\* distance the index reports for it.  The distances are those of one fixed
\* index in which no collection is nearer than another throughout.
Doc(c, j) == [collection |-> c, rank |-> j, distance |-> 10 * j - CollIndex(c)]

\* What collection.query returns for collection c when the index holds n
\* documents for the query: the n nearest, nearest first.
QueryResult(c, n) == [coll |-> c, documents |-> [j \in 1..n |-> Doc(c, j)]]

\* The results one collection can contribute.
ResultsFor(c) == {QueryResult(c, n) : n \in {0, TOP_K}}

\* The lists retrieve_chunks can return for the collections queried: the
\* results of those whose query succeeded, in the order the queries finished.
HitChoices(colls) ==
    LET all == UNION {ResultsFor(colls[n]) : n \in 1..Len(colls)}
    IN  {l \in UNION {[1..m -> all] : m \in 0..Len(colls)} :
            \A a, b \in 1..Len(l) : l[a].coll = l[b].coll => a = b}

RECURSIVE AllDocs(_)
\* lines 423-428: chunks.extend(docs) for every result
AllDocs(rs) == IF rs = <<>> THEN <<>> ELSE Head(rs).documents \o AllDocs(Tail(rs))

\* line 429: the chunks that go into chroma_context
Snippet(rs) == SubSeq(AllDocs(rs), 1, Min({Len(AllDocs(rs)), TOP_K}))

EndpointPart(r) == [kind |-> "endpoint", tag |-> r.tag, url |-> r.url, payload |-> r.payload]
ChunkPart(d) == [kind |-> "chunk", tag |-> d.collection, url |-> "", payload |-> "document"]

\* lines 435-440: realtime_context if it is not empty, the snippet appended
\* to it if there is one; the snippet alone otherwise.
FinalContext(ctx, snippet) ==
    IF ctx # <<>>
    THEN [k \in 1..Len(ctx) |-> EndpointPart(ctx[k])] \o [k \in 1..Len(snippet) |-> ChunkPart(snippet[k])]
    ELSE [k \in 1..Len(snippet) |-> ChunkPart(snippet[k])]

\* The literal the prompt asks the model to reply with when the context has no answer.
DontKnow == "I don't know based on available data."

\* What generate_answer_with_ollama can return: the text of the model,
\* which may or may not be that literal, or one of its two error texts.
Responses == {"text of the model", DontKnow, "[ERROR] No response from Ollama.", "[ERROR] Ollama call failed"}

\* lines 420-429
BuildSnippet ==
    /\ rpc = "snippet"
    /\ chunks' = Snippet(chroma_results)
    /\ rpc' = "build"
    /\ UNCHANGED <<embedded, qstate, results_list, chroma_results, context_str, answer>>
    /\ UNCHANGED <<routeVars, fetchVars, vars>>

\* lines 435-440
BuildContext ==
    /\ rpc = "done"
    /\ context_str' = FinalContext(context, chunks)
    /\ rpc' = "prompt"
    /\ UNCHANGED <<embedded, qstate, results_list, chroma_results, chunks, answer>>
    /\ UNCHANGED <<routeVars, fetchVars, vars>>

\* lines 446-476 and 489-490: the prompt goes to the model and its response is returned
Generate ==
    /\ rpc = "prompt"
    /\ answer' \in Responses
    /\ rpc' = "answered"
    /\ UNCHANGED <<embedded, qstate, results_list, chroma_results, chunks, context_str>>
    /\ UNCHANGED <<routeVars, fetchVars, vars>>

\* Queries whose answer is followed to its end.
AnswerQueries == {"hello"}

\* generate_answer after its retrieve_chunks has returned.
InitAnswer ==
    /\ CacheIdle
    /\ query \in AnswerQueries
    /\ rpc = "snippet"
    /\ expansions \in {expand_query_from(order) : order \in SetOrders(Expansions(query))}
    /\ collections = detect_collections(query)
    /\ target_unit = extract_unit_id(query)
    /\ assigned \in AssignedChoices(collections)
    /\ jobs = <<>>
    /\ dedup_jobs = <<>>
    /\ jobs_to_run = <<>>
    /\ Submitted(<<>>)
    /\ embedded = 0
    /\ qstate = <<>>
    /\ results_list = <<>>
    /\ chroma_results \in HitChoices(collections)
    /\ chunks = <<>>
    /\ context_str = <<>>
    /\ answer = None

NextAnswer ==
    \/ BuildSnippet
    \/ BuildJobs
    \/ DedupeJobs
    \/ SelectJobs
    \/ \E i \in Jobs : StartJob(i)
    \/ \E i \in Jobs, body \in Bodies : GetAnswered(i, body)
    \/ \E i \in Jobs : GetFailed(i)
    \/ \E i \in Jobs : Wake(i)
    \/ Assemble
    \/ BuildContext
    \/ Generate

SpecAnswer == InitAnswer /\ [][NextAnswer]_allVars

\* Every job that was run has failed for good.
AllFailed == Jobs # {} /\ \A i \in Jobs : Failed(i)

\* C21: when every executed endpoint job has failed and the similarity index
\* returned documents, the context of generate_answer is the similarity
\* context alone: no endpoint section stands in it.
C21_SimilarityOnlyWhenAllFail ==
    (rpc \in {"prompt", "answered"} /\ AllFailed /\ chunks # <<>>) =>
        \A k \in 1..Len(context_str) : context_str[k].kind = "chunk"

\* Neither an endpoint payload nor a document of the index is at hand.
NoEvidence == chunks = <<>> /\ \A k \in 1..Len(results) : results[k].payload # "json"

\* C25: when there is no usable evidence at all, no endpoint payload and no
\* document of the index, the caller gets one fixed literal, whichever
\* errors occurred, and not what the generation service returned.
C25_FixedAnswerWithoutEvidence ==
    (rpc = "answered" /\ NoEvidence) => answer = DontKnow

\* ---------------------------------------------------------------------------
\* retrieve_chunks step by step: the embeddings of line 133 and the
\* collection queries of lines 141-175, run by the pool of line 157.
\* ---------------------------------------------------------------------------

\* Queries whose retrieval is followed through: one, two and one routed
\* collections, the last of them Amenities.
RetrieveQueries == {"hello", "BILL-7", "pool"}

Colls == 1..Len(collections)

\* line 133, one text: cached_embedding returns
Embed ==
    /\ rpc \in {"query_1", "query_2"}
    /\ embedded < Len(expansions)
    /\ embedded' = embedded + 1
    /\ UNCHANGED <<rpc, qstate, results_list, chroma_results, chunks, context_str, answer>>
    /\ UNCHANGED <<routeVars, fetchVars, vars>>

\* line 133, one text: cached_embedding raises.  Nothing between here and the
\* main loop catches the exception.
EmbedRaise ==
    /\ rpc \in {"query_1", "query_2"}
    /\ embedded < Len(expansions)
    /\ rpc' = "raised"
    /\ UNCHANGED <<embedded, qstate, results_list, chroma_results, chunks, context_str, answer>>
    /\ UNCHANGED <<routeVars, fetchVars, vars>>

\* lines 134-158: every text is embedded; one query per collection is submitted
SubmitQueries ==
    /\ rpc \in {"query_1", "query_2"}
    /\ embedded = Len(expansions)
    /\ qstate' = [c \in Colls |-> "pending"]
    /\ results_list' = <<>>
    /\ rpc' = "collect_" \o Pass(rpc)
    /\ UNCHANGED <<embedded, chroma_results, chunks, context_str, answer>>
    /\ UNCHANGED <<routeVars, fetchVars, vars>>

\* lines 143-152 and 159-174: the query of collection c returns n documents
\* and the loop over the finished futures appends the result
QueryDone(c, n) ==
    /\ rpc \in {"collect_1", "collect_2"}
    /\ qstate[c] = "pending"
    /\ qstate' = [qstate EXCEPT ![c] = "ok"]
    /\ results_list' = Append(results_list, QueryResult(collections[c], n))
    /\ UNCHANGED <<rpc, embedded, chroma_results, chunks, context_str, answer>>
    /\ UNCHANGED <<routeVars, fetchVars, vars>>

QueryFailed_Abort(c) ==
    /\ rpc \in {"collect_1", "collect_2"}
    /\ qstate[c] = "pending"
    /\ qstate' = [qstate EXCEPT ![c] = "failed"]
    /\ rpc' = "raised"
    /\ UNCHANGED <<embedded, results_list, chroma_results, chunks, context_str, answer>>
    /\ UNCHANGED <<routeVars, fetchVars, vars>>

\* lines 153-155 and 159-161: get_collection or query raises, query_collection
\* returns (coll_name, None) and the loop passes it over
QueryFailed(c) ==
    /\ rpc \in {"collect_1", "collect_2"}
    /\ qstate[c] = "pending"
    /\ qstate' = [qstate EXCEPT ![c] = "failed"]
    /\ UNCHANGED <<rpc, embedded, results_list, chroma_results, chunks, context_str, answer>>
    /\ UNCHANGED <<routeVars, fetchVars, vars>>

\* The assigned_units the results at hand can carry (lines 162-173).
AssignedFrom(rs) ==
    IF \E k \in 1..Len(rs) : rs[k].coll = "Amenities" /\ rs[k].documents # <<>>
    THEN AssignedChoices(<<"Amenities">>)
    ELSE {<<>>}

\* line 176.  The first call hands its results to generate_answer (lines
\* 488-489); of the second call (line 418) the results are dropped and the
\* routing is kept.
ReturnChunks ==
    /\ rpc \in {"collect_1", "collect_2"}
    /\ \A c \in Colls : qstate[c] # "pending"
    /\ assigned' \in AssignedFrom(results_list)
    /\ chroma_results' = IF rpc = "collect_1" THEN results_list ELSE chroma_results
    /\ rpc' = IF rpc = "collect_1" THEN "expand_2" ELSE "snippet"
    /\ embedded' = 0
    /\ qstate' = <<>>
    /\ UNCHANGED <<results_list, chunks, context_str, answer>>
    /\ UNCHANGED <<query, expansions, collections, target_unit, jobs, dedup_jobs, jobs_to_run>>
    /\ UNCHANGED <<fetchVars, vars>>

InitRetrieve ==
    /\ CacheIdle
    /\ query \in RetrieveQueries
    /\ rpc = "expand_1"
    /\ expansions = <<>>
    /\ collections = <<>>
    /\ target_unit = None
    /\ assigned = <<>>
    /\ jobs = <<>>
    /\ dedup_jobs = <<>>
    /\ jobs_to_run = <<>>
    /\ Submitted(<<>>)
    /\ AnswerOff

NextRetrieve ==
    \/ ExpandQuery
    \/ DetectCollections
    \/ Embed
    \/ EmbedRaise
    \/ SubmitQueries
    \/ \E c \in Colls, n \in {0, TOP_K} : QueryDone(c, n)
    \/ \E c \in Colls : QueryFailed(c)
    \/ ReturnChunks
    \/ BuildSnippet

SpecRetrieve == InitRetrieve /\ [][NextRetrieve]_allVars

\* C22: the similarity results that go into the context are the merge of the
\* hits of all collections, sorted by ascending distance and cut to the
\* global top K: the K nearest documents, whichever query finished first.
C22_NearestKOverall ==
    rpc = "build" =>
        LET all == AllDocs(chroma_results)
        IN  /\ Len(chunks) = Min({Len(all), TOP_K})
            /\ \A k \in 1..(Len(chunks) - 1) : chunks[k].distance <= chunks[k + 1].distance
            /\ \A k \in 1..Len(chunks) : \A d \in Range(all) \ Range(chunks) :
                  chunks[k].distance <= d.distance

\* C23: in retrieve_chunks the failure of one collection's query never
\* aborts the others.  The list of results holds exactly the results of the
\* collections whose query succeeded, and no exception reaches the caller.
C23_QueryFailureIsolated ==
    /\ (rpc \in {"collect_1", "collect_2"}) =>
          /\ Len(results_list) = Cardinality({c \in Colls : qstate[c] = "ok"})
          /\ {results_list[k].coll : k \in 1..Len(results_list)} = {collections[c] : c \in {x \in Colls : qstate[x] = "ok"}}
          /\ \A c \in Colls : qstate[c] = "pending" => ENABLED QueryDone(c, TOP_K)
          /\ (\A c \in Colls : qstate[c] # "pending") => ENABLED ReturnChunks
    /\ (\E c \in 1..Len(qstate) : qstate[c] = "failed") => rpc # "raised"
    /\ rpc = "snippet" => \A k \in 1..Len(chroma_results) : chroma_results[k].coll \in Range(collections)

\* The query of the first collection has failed and that of the second has
\* returned its documents afterwards.
C23_Witness ==
    /\ rpc = "collect_1"
    /\ Len(qstate) = 2
    /\ qstate[1] = "failed"
    /\ qstate[2] = "ok"
    /\ Len(results_list) = 1
    /\ results_list[1].documents # <<>>

\* C24: a failure of the embedding of one expansion text is not fatal: the
\* text is skipped, the others are embedded and averaged, and
\* retrieve_chunks returns to its caller instead of raising.
C24_EmbeddingFailureSkipped == rpc # "raised"

\* C26: a response with an error status counts as a failed attempt of
\* safe_get: it is retried like a timeout, so a job that finished before its
\* last attempt was answered with a payload, and a job whose every attempt
\* met an error status ends as a failure, never as a successful outcome that
\* carries the error status.
C26_ErrorStatusRetried ==
    \A i \in Jobs : \A k \in ResultsOf(i) :
        /\ results[k].payload # "status_error"
        /\ tries[i] <= Retries => results[k].payload = "json"

\* The routing of the query fell back to the default collection: no keyword
\* of any collection occurs in it as a whole word.
DefaultRouted == \A n \in 1..Len(LoweredKeywords) : ~KeywordHit(LoweredKeywords[n], Lower(query))

\* C27: for every query routed to the default collection only, the jobs of
\* /summary and /bills/summary/ are among the jobs that
\* fetch_realtime_context runs: they outlast the removal of duplicates and
\* the cut to max_items = 4.
C27_FallbackJobsExecuted ==
    (rpc = "fetch" /\ DefaultRouted) =>
        HasUrl(jobs_to_run, "/summary") /\ HasUrl(jobs_to_run, "/bills/summary/")

\* C28: when invalidate(key) has completed while a computation for key was
\* in flight, the result of that computation is not served afterwards: the
\* step that ends the overtaken computation neither returns its result nor
\* leaves it in the cache for later calls of get and get_or_compute.
C28_InvalidatedResultNotServed ==
    [][\A q \in Procs :
          (q \in stale /\ pc[q] = "goc_102" /\ result[q] # None /\ pc'[q] = "idle") =>
              (/\ ret'[q] # result[q]
               /\ Lookup(data'[key[q]], now') # result[q])
    ]_allVars

\* ------------------------------------------------------------------ cancellation
\* What a cancelled call leaves in ret: asyncio.CancelledError, which the
\* `except Exception` of line 99 does not catch.
Cancelled == "Cancelled"

\* A cancellation that leaves the per-key lock with the cancelled task.
Cancel_KeepLock(p) ==
    /\ pc[p] = "goc_96"
    /\ Return(p, Cancelled)
    /\ sawFail' = [sawFail EXCEPT ![p] = FALSE]
    /\ stale' = stale \ {p}
    /\ UNCHANGED <<data, locks, holder, global_lock, now>>
    /\ UNCHANGED ragVars

\* line 96: the task is cancelled while coro_func() runs (the wait_for of
\* lines 139-145 timing out, say).  CancelledError passes line 99, `async
\* with lock` releases the lock on the way out, lines 102-104 are not run.
Cancel(p) ==
    /\ pc[p] = "goc_96"
    /\ holder' = [holder EXCEPT ![key[p]] = 0]
    /\ Return(p, Cancelled)
    /\ sawFail' = [sawFail EXCEPT ![p] = FALSE]
    /\ stale' = stale \ {p}
    /\ UNCHANGED <<data, locks, global_lock, now>>
    /\ UNCHANGED ragVars

NextCancel ==
    \/ Next
    \/ \E p \in Procs : Cancel(p)

SpecCancel == Init /\ [][NextCancel]_allVars

\* C30: when the task computing a key is cancelled while its compute
\* function runs, the key's lock is released and no entry is stored for the
\* key, so a get_or_compute of the key that waits for the lock can take it
\* (and a later one finds no entry and the lock free) and computes the
\* value itself.
C30_CancelReleasesLock ==
    [][\A p \in Procs : (pc[p] = "goc_96" /\ pc'[p] = "idle" /\ ret'[p] = Cancelled) =>
          (/\ data' = data
           /\ holder'[key[p]] = 0
           /\ \A q \in Procs \ {p} : (pc[q] = "goc_88" /\ key[q] = key[p]) =>
                 (pc'[q] = "goc_88" /\ key'[q] = key[p] /\ ret'[q] = ret[q]))
    ]_allVars

\* A task was cancelled inside coro_func, and the other task is now inside
\* coro_func itself, for a key that has no entry.
C30_Witness ==
    \E p, q \in Procs :
        /\ p # q
        /\ ret[p] = Cancelled
        /\ pc[p] = "idle"
        /\ Computing(q)
        /\ ~data[key[q]].present

\* ------------------------------------------------------------------ progress
\* The event loop runs every task that can run, asyncio.Lock wakes its
\* waiters in the order they queued, so no waiter is passed over for ever,
\* and every coro_func comes to an end: a step of a task that is possible
\* again and again is taken.
Fairness == \A p \in Procs : SF_allVars(TaskStep(p))

\* The cache after earlier calls have ended, one tick before the end of the
\* clock: "a" has an entry stored by a get_or_compute that is valid now and
\* will have expired after the tick, "b" has none.
InitLive ==
    /\ \E old \in Values :
          data = [k \in Keys |-> IF k = "a" THEN Rec(MaxTime - 1, old) ELSE NoRec]
    /\ locks = {k \in Keys : data[k].present}
    /\ holder = [k \in Keys |-> 0]
    /\ global_lock = 0
    /\ now = MaxTime - 1
    /\ pc = [p \in Procs |-> "idle"]
    /\ key = [p \in Procs |-> NoKey]
    /\ ttl = [p \in Procs |-> 0]
    /\ caller = [p \in Procs |-> NoCaller]
    /\ result = [p \in Procs |-> None]
    /\ ret = [p \in Procs |-> None]
    /\ sawFail = [p \in Procs |-> FALSE]
    /\ stale = {}
    /\ RagOff

NextLive ==
    \/ \E p \in Procs, k \in Keys : CallGet(p, k)
    \/ \E p \in Procs, k \in Keys, t \in TTLs : CallGetOrCompute(p, k, t)
    \/ \E p \in Procs, k \in Keys : CallInvalidate(p, k)
    \/ \E p \in Procs : TaskStep(p)
    \/ Tick

SpecLive == InitLive /\ [][NextLive]_allVars /\ Fairness

\* C29: under any interleaving of get, get_or_compute and invalidate calls
\* on any keys, if every compute function terminates, every call returns or
\* raises in the end: the global lock and the per-key locks never deadlock.
C29_EveryCallEnds == \A p \in Procs : (pc[p] # "idle") ~> (pc[p] = "idle")

\* A task that holds its key's lock stands before the global lock of get
\* (line 67), which the other task holds.
C29_Witness ==
    \E p, q \in Procs :
        /\ p # q
        /\ pc[p] = "get_67"
        /\ caller[p] = "recheck"
        /\ holder[key[p]] = p
        /\ global_lock = q

====
